---- MODULE Spec2Model ----
(***************************************************************************)
(* Model of the two notebooks of IBM_Q_status.ipynb.                       *)
(*                                                                         *)
(*   - the "IBM Q Status" cell (source lines 38-57): a sequential program  *)
(*     that calls an external provider and prints a table;                 *)
(*   - the cells of the unitary-evolution notebook (source lines 134-378): *)
(*     numeric computations over numpy arrays of float64 / int64.          *)
(***************************************************************************)
EXTENDS Integers, Sequences, FiniteSets, TLC

VARIABLES
    \* ---- IBM Q Status cell -------------------------------------------
    pc,                  \* the statement the cell executes next
    available_backends,  \* the list returned by provider.backends(...)
    n,                   \* the loop variable of "for n in range(...)"
    available_backend,   \* the backend returned by provider.get_backend
    fmt_args,            \* the arguments of .format evaluated so far
    stdout,              \* the lines printed, in print order
    calls,               \* the external calls issued, in issue order
    \* ---- the external service (not code of the repository) -------------
    svc_present,         \* names the provider can resolve
    svc_operational,     \* names whose status is operational
    svc_pending,         \* pending jobs per backend
    svc_changes,         \* number of changes of the service so far
    svc_history,         \* the pending-job tables the service has had so far
    \* ---- unitary-evolution notebook, cells 1 to 3 -----------------------
    upc,                 \* the statement these cells execute next
    X,                   \* the 2x2 int64 array X
    out_unitarity,       \* what cell 1 printed: X.X^dagger, X^dagger.X
    zero_ket,            \* the 2x1 int64 array zero_ket
    out_norm,            \* what cell 2 printed: the two norms
    circuit,             \* the gates appended to the circuit
    statevector,         \* the simulator's state vector
    applied,             \* number of gates the simulator has applied
    out_statevector,     \* what cell 3 printed
    \* ---- unitary-evolution notebook, cell 4: mixed_state ----------------
    mpc,                 \* the statement of mixed_state executed next
    pure_state,          \* the argument pure_state, a 4x1 array
    visibility,          \* the argument visibility, a float
    density_matrix,      \* the local density_matrix
    maximally_mixed_state, \* the local maximally_mixed_state
    out_mixed,           \* the array mixed_state returned
    \* ---- unitary-evolution notebook, cell 5: thermal distribution -------
    tpc,                 \* the statement of the cell executed next
    linspace_num,        \* the argument num of np.linspace
    exp_rounding,        \* which neighbour of exp(x) this build's np.exp returns
    temperatures,        \* the list temperatures
    t_index,             \* the index i of enumerate(temperatures)
    Temp,                \* the loop variable T, a temperature
    energies,            \* the array energies
    probabilities,       \* the array probabilities
    Z,                   \* the float Z
    legend,              \* the labels of the curves plotted so far
    \* ---- the kernel of the unitary-evolution notebook -------------------
    user_ns,             \* the names bound in the kernel's namespace
    printoptions,        \* numpy's print options, global to the kernel
    cell_log             \* the cells executed so far, with their outcome

rvars == <<pc, available_backends, n, available_backend, fmt_args, stdout, calls>>
svars == <<svc_present, svc_operational, svc_pending, svc_changes, svc_history>>
uvars == <<upc, X, out_unitarity, zero_ket, out_norm, circuit, statevector,
           applied, out_statevector>>
mvars == <<mpc, pure_state, visibility, density_matrix, maximally_mixed_state, out_mixed>>
tvars == <<tpc, linspace_num, exp_rounding, temperatures, t_index, Temp, energies,
           probabilities, Z, legend>>
kvars == <<user_ns, printoptions, cell_log>>
nvars == <<uvars, mvars, tvars, kvars>>
NotUnitary == <<rvars, svars, mvars, tvars, kvars>>
NotMixed == <<rvars, svars, uvars, tvars, kvars>>
NotThermal == <<rvars, svars, uvars, mvars, kvars>>
NotKernel == <<rvars, svars, uvars, mvars, tvars>>
vars == <<rvars, svars, nvars>>

-----------------------------------------------------------------------------
\* Bounds of the model.

\* number of backends the service knows
MaxBackends == 2

\* number of times the service changes state during one run
MaxChanges == 2

\* largest absolute value of an entry of the arrays X and zero_ket
MaxEntry == 1

\* largest number of gates appended to the circuit
MaxGates == 3

\* largest number of basis states superposed in a pure_state argument
MaxNonZero == 2

\* the visibility arguments are the multiples of 1/VisSteps in [0, 1]
VisSteps == 5

\* besides the source's 100 points, np.linspace is run with 2..MaxGrid points
MaxGrid == 4

\* besides the source's temperatures, the loop is run at the low
\* temperatures 1/8, 1/64, ..., 1/8^ColdSteps
ColdSteps == 2

\* largest number of cell executions in one kernel session
MaxExecutions == 3

-----------------------------------------------------------------------------
(***************************************************************************)
(* Arithmetic of numpy's float64 (IEEE 754 binary64, round to nearest,     *)
(* ties to even).  TLC's integers are 32 bits wide, so a 53-bit            *)
(* significand is held as a natural number in limbs: a little-endian       *)
(* sequence of digits in base 2^15, without leading zero digits (zero is   *)
(* the empty sequence).                                                    *)
(***************************************************************************)
Min(a, b) == IF a <= b THEN a ELSE b
Max(a, b) == IF a >= b THEN a ELSE b

RECURSIVE IntBitLen(_)
IntBitLen(i) == IF i = 0 THEN 0 ELSE 1 + IntBitLen(i \div 2)

Base == 2^15
LimbBits == IntBitLen(Base) - 1

Limb(a, i) == IF i <= Len(a) THEN a[i] ELSE 0

RECURSIVE BTrim(_)
BTrim(a) ==
    IF a = <<>> THEN <<>>
    ELSE IF a[Len(a)] = 0 THEN BTrim(SubSeq(a, 1, Len(a) - 1)) ELSE a

RECURSIVE BFromInt(_)
BFromInt(i) == IF i = 0 THEN <<>> ELSE <<i % Base>> \o BFromInt(i \div Base)

RECURSIVE BAddLoop(_, _, _, _, _)
BAddLoop(a, b, i, c, acc) ==
    IF i > Max(Len(a), Len(b))
    THEN IF c = 0 THEN acc ELSE Append(acc, c)
    ELSE LET s    == Limb(a, i) + Limb(b, i) + c
             nacc == Append(acc, s % Base)
         IN  IF Len(nacc) >= 0 THEN BAddLoop(a, b, i + 1, s \div Base, nacc) ELSE <<>>

BAdd(a, b) == BAddLoop(a, b, 1, 0, <<>>)

\* a - b for a >= b
RECURSIVE BSubLoop(_, _, _, _, _)
BSubLoop(a, b, i, c, acc) ==
    IF i > Len(a) THEN acc
    ELSE LET d    == a[i] - Limb(b, i) - c
             nacc == Append(acc, IF d < 0 THEN d + Base ELSE d)
         IN  IF Len(nacc) >= 0 THEN BSubLoop(a, b, i + 1, IF d < 0 THEN 1 ELSE 0, nacc)
             ELSE <<>>

BSub(a, b) == BTrim(BSubLoop(a, b, 1, 0, <<>>))

\* -1, 0, 1 as a < b, a = b, a > b
RECURSIVE BCmpLoop(_, _, _)
BCmpLoop(a, b, i) ==
    IF i = 0 THEN 0
    ELSE IF a[i] < b[i] THEN -1
    ELSE IF a[i] > b[i] THEN 1
    ELSE BCmpLoop(a, b, i - 1)

BCmp(a, b) ==
    IF Len(a) < Len(b) THEN -1
    ELSE IF Len(a) > Len(b) THEN 1
    ELSE BCmpLoop(a, b, Len(a))

\* a * d for one digit d
RECURSIVE BMulSmallLoop(_, _, _, _, _)
BMulSmallLoop(a, d, i, c, acc) ==
    IF i > Len(a)
    THEN IF c = 0 THEN acc ELSE Append(acc, c)
    ELSE LET s    == a[i] * d + c
             nacc == Append(acc, s % Base)
         IN  IF Len(nacc) >= 0 THEN BMulSmallLoop(a, d, i + 1, s \div Base, nacc) ELSE <<>>

BMulSmall(a, d) == IF d = 0 THEN <<>> ELSE BMulSmallLoop(a, d, 1, 0, <<>>)

\* a * Base^k
BShlLimbs(a, k) == IF a = <<>> THEN <<>> ELSE [i \in 1..k |-> 0] \o a

RECURSIVE BMulLoop(_, _, _, _)
BMulLoop(a, b, i, acc) ==
    IF i > Len(b) THEN acc
    ELSE LET nacc == BAdd(acc, BShlLimbs(BMulSmall(a, b[i]), i - 1))
         IN  IF Len(nacc) >= 0 THEN BMulLoop(a, b, i + 1, nacc) ELSE <<>>

BMul(a, b) == BMulLoop(a, b, 1, <<>>)

\* a * 2^k
BShl(a, k) == BMulSmall(BShlLimbs(a, k \div LimbBits), 2^(k % LimbBits))

\* a \div 2^k
BShr(a, k) ==
    LET q == k \div LimbBits
        r == k % LimbBits
        m == Len(a) - q
    IN  IF m <= 0 THEN <<>>
        ELSE BTrim([i \in 1..m |->
                 (a[i + q] \div 2^r) + (Limb(a, i + q + 1) % 2^r) * 2^(LimbBits - r)])

\* a % 2^k
BLow(a, k) == BSub(a, BShl(BShr(a, k), k))

\* number of binary digits of a
BBitLen(a) == IF a = <<>> THEN 0 ELSE LimbBits * (Len(a) - 1) + IntBitLen(a[Len(a)])

BPow2(k) == BShl(<<1>>, k)
BOdd(a) == a # <<>> /\ a[1] % 2 = 1

\* binary long division, one quotient bit per step: q gets bit `bit` when
\* the product with d still fits in a.  (The test on Len makes TLC evaluate
\* the new quotient before the recursive call instead of nesting thunks.)
RECURSIVE BDivLoop(_, _, _, _)
BDivLoop(a, d, q, bit) ==
    IF bit < 0 THEN q
    ELSE LET t == BAdd(q, BPow2(bit))
             nq == IF BCmp(BMul(t, d), a) <= 0 THEN t ELSE q
         IN  IF Len(nq) >= 0 THEN BDivLoop(a, d, nq, bit - 1) ELSE <<>>

\* a \div d for d > 0
BDiv(a, d) == BDivLoop(a, d, <<>>, Max(BBitLen(a) - BBitLen(d), 0))

\* the integer square root: the largest r with r * r <= a
RECURSIVE BSqrtLoop(_, _, _)
BSqrtLoop(a, r, bit) ==
    IF bit < 0 THEN r
    ELSE LET t == BAdd(r, BPow2(bit))
             nr == IF BCmp(BMul(t, t), a) <= 0 THEN t ELSE r
         IN  IF Len(nr) >= 0 THEN BSqrtLoop(a, nr, bit - 1) ELSE <<>>

BSqrt(a) == BSqrtLoop(a, <<>>, BBitLen(a) \div 2)

\* a \div d for one digit d > 0: long division from the top digit down
RECURSIVE BDivSmallLoop(_, _, _, _, _)
BDivSmallLoop(a, d, i, rem, acc) ==
    IF i = 0 THEN BTrim(acc)
    ELSE LET cur  == rem * Base + a[i]
             nacc == <<cur \div d>> \o acc
         IN  IF Len(nacc) >= 0 THEN BDivSmallLoop(a, d, i - 1, cur % d, nacc) ELSE <<>>

BDivSmall(a, d) == BDivSmallLoop(a, d, Len(a), 0, <<>>)

\* the value of a natural number of at most two digits
BToInt(a) == Limb(a, 1) + Base * Limb(a, 2)

-----------------------------------------------------------------------------
\* A float64 is (-1)^sgn * man * 2^exp with man = 0, or man of exactly
\* Precision binary digits.  A subnormal number, a multiple of 2^MinExp
\* below 2^(MinExp + Precision - 1), is held in the same form (its
\* significand then ends in zeros).  Within the inputs of this model no
\* result overflows, so infinities and NaN do not occur and are not
\* represented.
Precision == 53
MinExp == -1074

Float(sgn, man, exp) == [sgn |-> sgn, man |-> man, exp |-> exp]
FZero(sgn) == Float(sgn, <<>>, 0)
FIsZero(a) == a.man = <<>>

\* The float64 nearest to (-1)^sgn * (man + f) * 2^exp, ties to even, where
\* 0 <= f < 1 and sticky says whether f > 0 (then man has more than
\* Precision + 1 digits).
\* Gradual underflow: digits below 2^MinExp are rounded away as well.
FRound(sgn, man, exp, sticky) ==
    LET len == BBitLen(man)
        sh  == Max(len - Precision, MinExp - exp)
    IN
    IF man = <<>> THEN FZero(sgn)
    ELSE IF sh <= 0
    THEN Float(sgn, BShl(man, Precision - len), exp - (Precision - len))
    ELSE IF sh > len THEN FZero(sgn)
    ELSE LET q    == BShr(man, sh)
             c    == BCmp(BLow(man, sh), BPow2(sh - 1))
             up   == c > 0 \/ (c = 0 /\ (sticky \/ BOdd(q)))
             q2   == IF up THEN BAdd(q, <<1>>) ELSE q
             len2 == BBitLen(q2)
         IN  IF q2 = <<>> THEN FZero(sgn)
             ELSE IF len2 > Precision
             THEN Float(sgn, BShr(q2, 1), exp + sh + 1)
             ELSE Float(sgn, BShl(q2, Precision - len2), exp + sh - (Precision - len2))

\* The float64 next below (up = FALSE) or next above (up = TRUE) the
\* positive number (man + f) * 2^exp with 0 < f < 1: the two results a
\* faithfully rounded function can return.
FRoundDirected(man, exp, up) ==
    LET len  == BBitLen(man)
        sh   == Max(Max(len - Precision, MinExp - exp), 0)
        q    == BShr(man, sh)
        q2   == IF up THEN BAdd(q, <<1>>) ELSE q
        len2 == BBitLen(q2)
    IN  IF q2 = <<>> THEN FZero(0)
        ELSE IF len2 > Precision
        THEN Float(0, BShr(q2, 1), exp + sh + 1)
        ELSE Float(0, BShl(q2, Precision - len2), exp + sh - (Precision - len2))

\* float(i) for a python int
FFromInt(i) == FRound(IF i < 0 THEN 1 ELSE 0, BFromInt(IF i < 0 THEN -i ELSE i), 0, FALSE)

FNeg(a) == Float(1 - a.sgn, a.man, a.exp)

\* a + b.  Both significands have Precision digits, so a term more than
\* Precision + 3 binary places below the other is less than an eighth of
\* the other's last place, and the rounded sum is the other term.
FAdd(a, b) ==
    IF FIsZero(a) /\ FIsZero(b) THEN FZero(IF a.sgn = 1 /\ b.sgn = 1 THEN 1 ELSE 0)
    ELSE IF FIsZero(a) THEN b
    ELSE IF FIsZero(b) THEN a
    ELSE IF a.exp - b.exp > Precision + 3 THEN a
    ELSE IF b.exp - a.exp > Precision + 3 THEN b
    ELSE LET e  == Min(a.exp, b.exp)
             ma == BShl(a.man, a.exp - e)
             mb == BShl(b.man, b.exp - e)
             c  == BCmp(ma, mb)
         IN  IF a.sgn = b.sgn THEN FRound(a.sgn, BAdd(ma, mb), e, FALSE)
             ELSE IF c = 0 THEN FZero(0)
             ELSE IF c > 0 THEN FRound(a.sgn, BSub(ma, mb), e, FALSE)
             ELSE FRound(b.sgn, BSub(mb, ma), e, FALSE)

\* a - b
FSub(a, b) == FAdd(a, FNeg(b))

\* a * b
FMul(a, b) ==
    LET sgn == (a.sgn + b.sgn) % 2 IN
    IF FIsZero(a) \/ FIsZero(b) THEN FZero(sgn)
    ELSE FRound(sgn, BMul(a.man, b.man), a.exp + b.exp, FALSE)

\* a / b for b # 0: the quotient of the significands to Precision + 4
\* digits and more, the remainder as the sticky bit
FDiv(a, b) ==
    LET sgn == (a.sgn + b.sgn) % 2
        num == BShl(a.man, Precision + 4)
        q   == BDiv(num, b.man)
    IN  IF FIsZero(a) THEN FZero(sgn)
        ELSE FRound(sgn, q, a.exp - b.exp - (Precision + 4),
                    BCmp(BMul(q, b.man), num) # 0)

\* sqrt(a) for a >= 0
FSqrt(a) ==
    LET odd == a.exp % 2 = 1
        m   == BShl(a.man, (IF odd THEN 1 ELSE 0) + 2 * (Precision \div 2 + 3))
        e   == (IF odd THEN a.exp - 1 ELSE a.exp) - 2 * (Precision \div 2 + 3)
        r   == BSqrt(m)
    IN  IF FIsZero(a) THEN a
        ELSE FRound(0, r, e \div 2, BCmp(BMul(r, r), m) # 0)

\* a == b (python's ==: the zeros of either sign are equal)
FEq(a, b) == (FIsZero(a) /\ FIsZero(b)) \/ a = b

\* |a - b| <= 2^e, decided exactly on the aligned significands
FWithin(a, b, e) ==
    LET lo == Min(Min(a.exp, b.exp), e)
        ma == BShl(a.man, a.exp - lo)
        mb == BShl(b.man, b.exp - lo)
        d  == IF a.sgn # b.sgn THEN BAdd(ma, mb)
              ELSE IF BCmp(ma, mb) >= 0 THEN BSub(ma, mb) ELSE BSub(mb, ma)
    IN  BCmp(d, BPow2(e - lo)) <= 0

\* a < b (significands of Precision digits: the exponents decide first)
FLess(a, b) ==
    IF FIsZero(a) THEN ~FIsZero(b) /\ b.sgn = 0
    ELSE IF FIsZero(b) THEN a.sgn = 1
    ELSE IF a.sgn # b.sgn THEN a.sgn = 1
    ELSE LET c == IF a.exp < b.exp THEN -1
                  ELSE IF a.exp > b.exp THEN 1
                  ELSE BCmp(a.man, b.man)
         IN  IF a.sgn = 0 THEN c < 0 ELSE c > 0

-----------------------------------------------------------------------------
(***************************************************************************)
(* np.exp on float64, for arguments <= 0.  The value is computed in fixed  *)
(* point with ExpScale binary digits after the point: the argument is      *)
(* reduced by a multiple k of ln 2, exp(-r) for 0 <= r < ln 2 is summed    *)
(* from its series, and the result is exp(-r) * 2^(-k).  exp of a nonzero  *)
(* float is irrational, so it lies strictly between two adjacent float64   *)
(* numbers; the library's exp is not specified to be correctly rounded, it *)
(* returns one of the two.  `rounding` names which one the build at hand   *)
(* returns: the nearer one, the lower one or the upper one.                *)
(***************************************************************************)
ExpLimbs == 7
ExpScale == LimbBits * ExpLimbs

FixOne == BPow2(ExpScale)
FixMul(a, b) == BShr(BMul(a, b), ExpScale)

\* ln 2 = 1/(1*2) + 1/(2*4) + 1/(3*8) + ... in fixed point: the terms
\* from..to, the range halved
RECURSIVE Ln2Series(_, _)
Ln2Series(from, to) ==
    IF from = to THEN BDivSmall(BShr(FixOne, from), from)
    ELSE BAdd(Ln2Series(from, (from + to) \div 2), Ln2Series((from + to) \div 2 + 1, to))

Ln2Fixed == Ln2Series(1, ExpScale)

\* |a| in fixed point, digits below 2^(-ExpScale) dropped
ToFixed(a) ==
    IF a.exp + ExpScale >= 0 THEN BShl(a.man, a.exp + ExpScale)
    ELSE BShr(a.man, -(a.exp + ExpScale))

\* 1 - r + r^2/2! - r^3/3! + ...: term is r^(j-1)/(j-1)!, pos and neg the
\* sums of the terms added and subtracted so far
RECURSIVE ExpSeries(_, _, _, _, _)
ExpSeries(r, term, j, pos, neg) ==
    IF term = <<>> THEN BSub(pos, neg)
    ELSE LET nt   == BDivSmall(FixMul(term, r), j)
             npos == IF j % 2 = 1 THEN pos ELSE BAdd(pos, nt)
             nneg == IF j % 2 = 1 THEN BAdd(neg, nt) ELSE neg
         IN  IF Len(npos) + Len(nneg) >= 0 THEN ExpSeries(r, nt, j + 1, npos, nneg)
             ELSE <<>>

\* np.exp(a) for a float64 a <= 0: 1 for a zero; for |a| of 2^LimbBits and
\* more the value is far below the smallest float64; for |a| below
\* 2^(-ExpScale) it is just below 1
FExp(a, rounding) ==
    LET x == ToFixed(a)
        k == BToInt(BDiv(x, Ln2Fixed))
        r == BSub(x, BMulSmall(Ln2Fixed, k))
        s == IF x = <<>> THEN BSub(FixOne, <<1>>)
             ELSE ExpSeries(r, FixOne, 1, FixOne, <<>>)
    IN  IF FIsZero(a) THEN FRound(0, <<1>>, 0, FALSE)
        ELSE IF BBitLen(x) > ExpScale + LimbBits
        THEN FRoundDirected(<<>>, MinExp, rounding = "up")
        ELSE IF rounding = "nearest" THEN FRound(0, s, -(ExpScale + k), TRUE)
        ELSE FRoundDirected(s, -(ExpScale + k), rounding = "up")

-----------------------------------------------------------------------------
\* The service's backends, as the recorded output of the cell shows them.
Catalog ==
    << [name |-> "ibmq_qasm_simulator", n_qubits |-> 32, pending_jobs |-> 0],
       [name |-> "ibmqx2",              n_qubits |-> 5,  pending_jobs |-> 81],
       [name |-> "ibmq_16_melbourne",   n_qubits |-> 14, pending_jobs |-> 2],
       [name |-> "ibmq_vigo",           n_qubits |-> 5,  pending_jobs |-> 2],
       [name |-> "ibmq_ourense",        n_qubits |-> 5,  pending_jobs |-> 2] >>

\* A backend the provider can offer as well: the names are the service's
\* choice, and this one is longer than the 20 characters of the name field.
LongNamed ==
    [name |-> "simulator_extended_stabilizer", n_qubits |-> 63, pending_jobs |-> 0]

\* every backend the service can offer
Offered == Catalog \o <<LongNamed>>

CatalogIdx == 1..Min(MaxBackends, Len(Catalog))
Names == {Catalog[i].name : i \in CatalogIdx}
IdxOf(nm) == CHOOSE i \in DOMAIN Offered : Offered[i].name = nm
NQubits(nm) == Offered[IdxOf(nm)].n_qubits

\* all orderings of a finite set, as sequences without repetition
Orderings(S) ==
    {s \in [1..Cardinality(S) -> S] : \A i, j \in 1..Cardinality(S) : i # j => s[i] # s[j]}

-----------------------------------------------------------------------------
\* str.format with "{:20}" / "{:<10}": left-justify, pad with spaces to a
\* minimum width, never truncate.
RECURSIVE Spaces(_)
Spaces(k) == IF k <= 0 THEN "" ELSE " " \o Spaces(k - 1)

LJust(s, w) == s \o Spaces(w - Len(s))

\* the minimum widths of the format fields: {0:20}, and {1:<10}, {2:<10}
NameWidth == 20
CountWidth == 10

\* "{0:20} {1:<10} {2:<10}".format(a, b, c), the three arguments as text
FormatRow(a, b, c) ==
    LJust(a, NameWidth) \o " " \o LJust(b, CountWidth) \o " " \o LJust(c, CountWidth)

\* "{0:20} {1:<10} {2:<10} ".format(a, b, c): the header's format string
\* ends with a space
FormatHeader(a, b, c) == FormatRow(a, b, c) \o " "

Header1 == FormatHeader("Name", "#Qubits", "Pending jobs")
Header2 == FormatHeader("++++", "+++++++", "++++++++++++")

\* the text of an int in a format field
Str(i) == ToString(i)

-----------------------------------------------------------------------------
(***************************************************************************)
(* The unitary-evolution notebook, cells 1 to 3 (source lines 134-139,     *)
(* 171-175, 231-238).  The arrays X and zero_ket are literals in the       *)
(* source; here they are drawn from all int64 arrays of their shape with   *)
(* entries of absolute value up to MaxEntry, and the circuit gets up to    *)
(* MaxGates x gates, so that the source's values are particular cases.     *)
(***************************************************************************)

\* the literals of the source
X_literal == << <<0, 1>>, <<1, 0>> >>
zero_ket_literal == << <<1>>, <<0>> >>

Entries == (-MaxEntry)..MaxEntry
IntArrays(rows, cols) == [1..rows -> [1..cols -> Entries]]

Rows(A) == Len(A)
Cols(A) == Len(A[1])

RECURSIVE SumTo(_, _)
\* f[1] + ... + f[k]
SumTo(f, k) == IF k = 0 THEN 0 ELSE SumTo(f, k - 1) + f[k]

\* A * B, numpy's elementwise product (an axis of length 1 is broadcast)
DotElementwise(A, B) ==
    [i \in 1..Max(Rows(A), Rows(B)) |-> [j \in 1..Max(Cols(A), Cols(B)) |->
        A[Min(i, Rows(A))][Min(j, Cols(A))] * B[Min(i, Rows(B))][Min(j, Cols(B))]]]

\* A.dot(B) for 2-D int64 arrays: the matrix product
Dot(A, B) ==
    [i \in 1..Rows(A) |-> [j \in 1..Cols(B) |->
        SumTo([k \in 1..Cols(A) |-> A[i][k] * B[k][j]], Cols(A))]]

\* A.T
T(A) == [j \in 1..Cols(A) |-> [i \in 1..Rows(A) |-> A[i][j]]]

\* A.conj() for an int64 array: numpy's conjugate of an integer is the
\* integer itself
Conj(A) == A

\* the squares of the entries of a 2-D array, summed (x.dot(x) of the
\* ravelled array)
SumSq(A) ==
    SumTo([i \in 1..Rows(A) |-> SumTo([j \in 1..Cols(A) |-> A[i][j] * A[i][j]], Cols(A))],
          Rows(A))

\* the sums of squares that occur, and their float64 square roots (a
\* table, so that each root is computed once)
MaxSumSq == 2 * (2 * MaxEntry * MaxEntry) * (2 * MaxEntry * MaxEntry)
SqrtTable == [k \in 0..MaxSumSq |-> FSqrt(FFromInt(k))]

\* the norm of the first row only (np.linalg.norm(A[0]))
NormFirstRow(A) == SqrtTable[SumSq(<<A[1]>>)]

\* np.linalg.norm(A) for a 2-D int64 array: the array is cast to float64,
\* ravelled, and the norm is sqrt(x.dot(x)); the squares and their sum are
\* small integers, exact in float64
Norm(A) == SqrtTable[SumSq(A)]

\* the simulator's amplitudes: complex numbers with integer parts
\* (0 and 1 are exact in complex128), <<re, im>>
CAdd(a, b) == <<a[1] + b[1], a[2] + b[2]>>
CMul(a, b) == <<a[1] * b[1] - a[2] * b[2], a[1] * b[2] + a[2] * b[1]>>
CZero == <<0, 0>>
COne == <<1, 0>>

\* a gate that does nothing
GateIdentity(g) == << <<COne, CZero>>, <<CZero, COne>> >>

\* the matrix the simulator applies for a gate: circuit.x is Pauli X
GateMatrix(g) == << <<CZero, COne>>, <<COne, CZero>> >>

\* one gate applied to a one-qubit state vector
ApplyGate(g, sv) ==
    [i \in 1..2 |-> CAdd(CMul(GateMatrix(g)[i][1], sv[1]), CMul(GateMatrix(g)[i][2], sv[2]))]

UnitaryIdle ==
    /\ upc = "idle"
    /\ X = <<>>
    /\ out_unitarity = <<>>
    /\ zero_ket = <<>>
    /\ out_norm = <<>>
    /\ circuit = <<>>
    /\ statevector = <<>>
    /\ applied = 0
    /\ out_statevector = <<>>

-----------------------------------------------------------------------------
(***************************************************************************)
(* The unitary-evolution notebook, cell 4 (source lines 305-318):          *)
(* mixed_state(pure_state, visibility).  An array entry is a complex       *)
(* number [re, im] of two float64 (a float64 array is the case im = 0).    *)
(* The source calls mixed_state with the literal ϕ and the visibilities    *)
(* 1.0, 0.8, 0.6, 0.2; here pure_state is drawn from the normalised        *)
(* superpositions of up to MaxNonZero basis states with amplitudes         *)
(* 1, -1, i, -i, and visibility from the multiples of 1/VisSteps.          *)
(***************************************************************************)
CF(re, im) == [re |-> re, im |-> im]

\* x * y for complex128: (a+bi)(c+di) = (ac - bd) + (ad + bc)i
CFMul(x, y) ==
    CF(FSub(FMul(x.re, y.re), FMul(x.im, y.im)),
       FAdd(FMul(x.re, y.im), FMul(x.im, y.re)))

\* x.conj()
CFConj(x) == CF(x.re, FNeg(x.im))

\* np.sqrt(k) and k / np.sqrt(c) for the small integers that occur
SqrtOf == [c \in 1..4 |-> FSqrt(FFromInt(c))]
Amplitude == [c \in 1..4 |-> [k \in -1..1 |-> FDiv(FFromInt(k), SqrtOf[c])]]

\* np.array(units)/np.sqrt(c): every part of every entry divided by the root
Normalised(units, c) == [i \in 1..4 |-> CF(Amplitude[c][units[i][1]], Amplitude[c][units[i][2]])]

Units == {<<1, 0>>, <<-1, 0>>, <<0, 1>>, <<0, -1>>}
NonZero(units) == Cardinality({i \in 1..4 : units[i] # <<0, 0>>})
UnitVectors ==
    {u \in [1..4 -> Units \cup {<<0, 0>>}] : NonZero(u) >= 1 /\ NonZero(u) <= Min(MaxNonZero, 4)}
PureStates == {Normalised(u, NonZero(u)) : u \in UnitVectors}

\* ϕ = np.array([[1],[0],[0],[1]])/np.sqrt(2)
Phi == Normalised(<< <<1, 0>>, <<0, 0>>, <<0, 0>>, <<1, 0>> >>, 2)

Visibilities == {FDiv(FFromInt(k), FFromInt(VisSteps)) : k \in 0..VisSteps}

\* pure_state.dot(pure_state.T): the conjugate forgotten
DensityMatrixNoConj(p) == [i \in 1..4 |-> [j \in 1..4 |-> CFMul(p[i], p[j])]]

\* density_matrix = pure_state.dot(pure_state.T.conj()): a 4x1 array times
\* a 1x4 array, every entry a single product
DensityMatrix(p) == [i \in 1..4 |-> [j \in 1..4 |-> CFMul(p[i], CFConj(p[j]))]]

\* np.eye(4)/2: the power forgotten
MaximallyMixedHalf ==
    [i \in 1..4 |-> [j \in 1..4 |-> FDiv(FFromInt(IF i = j THEN 1 ELSE 0), FFromInt(2))]]

\* maximally_mixed_state = np.eye(4)/2**2
MaximallyMixedState ==
    [i \in 1..4 |-> [j \in 1..4 |-> FDiv(FFromInt(IF i = j THEN 1 ELSE 0), FFromInt(2^2))]]

\* a float64 v times a complex128 z, and a complex128 z plus a float64 m:
\* numpy casts the float64 to v + 0j and m + 0j
Scale(v, z) == CF(FMul(v, z.re), FMul(v, z.im))
AddReal(z, m) == CF(FAdd(z.re, m), FAdd(z.im, FZero(0)))

\* the weights exchanged
MixedReturnSwapped(v, dm, mms) ==
    [i \in 1..4 |-> [j \in 1..4 |->
        AddReal(Scale(FSub(FFromInt(1), v), dm[i][j]), FMul(v, mms[i][j]))]]

\* the weight of the maximally mixed state forgotten
MixedReturnUnweighted(v, dm, mms) ==
    [i \in 1..4 |-> [j \in 1..4 |-> AddReal(Scale(v, dm[i][j]), mms[i][j])]]

\* return visibility*density_matrix + (1-visibility)*maximally_mixed_state
MixedReturn(v, dm, mms) ==
    [i \in 1..4 |-> [j \in 1..4 |->
        AddReal(Scale(v, dm[i][j]), FMul(FSub(FFromInt(1), v), mms[i][j]))]]

MixedIdle ==
    /\ mpc = "idle"
    /\ pure_state = <<>>
    /\ visibility = <<>>
    /\ density_matrix = <<>>
    /\ maximally_mixed_state = <<>>
    /\ out_mixed = <<>>

-----------------------------------------------------------------------------
(***************************************************************************)
(* The thermal-distribution cell (source lines 362-378).  The source runs  *)
(* the loop at three temperatures over a grid of 100 energies; here the    *)
(* loop is also run at lower temperatures and over shorter grids, and with *)
(* each of the results np.exp may return.                                  *)
(***************************************************************************)

\* temperatures = [.5, 5, 2000]
temperatures_literal == <<FDiv(FFromInt(1), FFromInt(2)), FFromInt(5), FFromInt(2000)>>

\* the low temperatures 1/8^k
ColdTemperatures == {FDiv(FFromInt(1), FFromInt(8^k)) : k \in 1..ColdSteps}

\* the lists the loop is run over: the source's, and each low temperature
\* (the low temperatures on the grids of up to MaxGrid points)
TemperatureLists == {temperatures_literal} \cup {<<t>> : t \in ColdTemperatures}

\* np.linspace(0, 20, 100): the num argument of the source
GridNum == 100
GridSizes == (2..MaxGrid) \cup {GridNum}

Roundings == {"nearest", "down", "up"}

\* np.linspace(start, stop, cnt) for ints start < stop, cnt >= 2:
\*   step = (stop - start)/(cnt - 1); y = arange(0, cnt)*step + start;
\*   y[-1] = stop
Linspace(start, stop, cnt) ==
    LET step == FDiv(FFromInt(stop - start), FFromInt(cnt - 1))
    IN  [j \in 1..cnt |->
            IF j = cnt THEN FFromInt(stop)
            ELSE FAdd(FMul(FFromInt(j - 1), step), FFromInt(start))]

\* the grids, each computed once
EnergiesTable == [g \in GridSizes |-> Linspace(0, 20, g)]

\* res + a[j] + a[j + stride] + ..., for the indices up to `to`, added one
\* after the other
RECURSIVE AddStride(_, _, _, _, _)
AddStride(a, j, stride, to, res) ==
    IF j > to THEN res
    ELSE LET nres == FAdd(res, a[j])
         IN  IF nres.sgn >= 0 THEN AddStride(a, j + stride, stride, to, nres) ELSE nres

\* r[lo] + ... + r[hi] added as a balanced tree: for eight terms
\* ((r1 + r2) + (r3 + r4)) + ((r5 + r6) + (r7 + r8))
RECURSIVE TreeSum(_, _, _)
TreeSum(r, lo, hi) ==
    IF lo = hi THEN r[lo]
    ELSE FAdd(TreeSum(r, lo, (lo + hi) \div 2), TreeSum(r, (lo + hi) \div 2 + 1, hi))

\* the eight interleaved partial sums over the first m elements, m a
\* multiple of 8: r[j] = a[j] + a[j + 8] + a[j + 16] + ...
PartialSums(a, m) == [j \in 1..8 |-> AddStride(a, j + 8, 8, m, a[j])]

\* ndarray.sum() of a contiguous float64 array: numpy's pairwise summation.
\* Fewer than 8 elements are added one after the other; up to 128 elements
\* are added in 8 interleaved partial sums, combined as a tree, then the
\* remaining elements; longer arrays are halved.
RECURSIVE PairwiseSum(_)
PairwiseSum(a) ==
    LET len == Len(a)
        m   == len - (len % 8)
        h   == (len \div 2) - ((len \div 2) % 8)
    IN  IF len <= 128
        THEN AddStride(a, IF len < 8 THEN 1 ELSE m + 1, 1, len,
                 IF len < 8 THEN FZero(0) ELSE TreeSum(PartialSums(a, m), 1, 8))
        ELSE FAdd(PairwiseSum(SubSeq(a, 1, h)), PairwiseSum(SubSeq(a, h + 1, len)))

\* np.exp(-energies/T)
Weights(e, t, rounding) == [j \in 1..Len(e) |-> FExp(FDiv(FNeg(e[j]), t), rounding)]

\* the weights left as they are
Unnormalised(w, z) == w

\* probabilities /= Z
Normalise(w, z) == [j \in 1..Len(w) |-> FDiv(w[j], z)]

\* label = "$T_" + str(i+1) + "$"
Label(k) == "$T_" \o ToString(k + 1) \o "$"

ThermalIdle ==
    /\ tpc = "idle"
    /\ linspace_num = 0
    /\ exp_rounding = "nearest"
    /\ temperatures = <<>>
    /\ t_index = 0
    /\ Temp = FZero(0)
    /\ energies = <<>>
    /\ probabilities = <<>>
    /\ Z = FZero(0)
    /\ legend = <<>>

-----------------------------------------------------------------------------
(***************************************************************************)
(* The kernel of the unitary-evolution notebook.  The cells of a notebook  *)
(* run in one kernel, in the order the user executes them; a statement     *)
(* that reads a name not bound in the kernel's namespace raises NameError  *)
(* and ends its cell.  A cell is the sequence of its statements: the names *)
(* a statement reads, in evaluation order, the names it binds, what it     *)
(* prints, and whether it sets numpy's print options.                      *)
(***************************************************************************)
Stmt(reads, binds, out) == [reads |-> reads, binds |-> binds, out |-> out, options |-> FALSE]

\* np.set_printoptions(precision=3, suppress=True)
SetPrintOptions == [reads |-> <<"np">>, binds |-> {}, out |-> <<>>, options |-> TRUE]

\* numpy's print options when the kernel starts, and as the cell sets them
DefaultPrintOptions == [precision |-> 8, suppress |-> FALSE]
CellPrintOptions == [precision |-> 3, suppress |-> TRUE]

\* source lines 134-139
CellUnitarity ==
    << Stmt(<<>>, {"np"}, <<>>),
       Stmt(<<"np">>, {"X"}, <<>>),
       Stmt(<<>>, {}, <<"XX^dagger">>),
       Stmt(<<"X">>, {}, <<Dot(X_literal, Conj(T(X_literal)))>>),
       Stmt(<<>>, {}, <<"X^daggerX">>),
       Stmt(<<"X">>, {}, <<Dot(Conj(T(X_literal)), X_literal)>>) >>

\* source lines 171-175
CellNorm ==
    << Stmt(<<>>, {}, <<"The norm of the state |0> before applying X">>),
       Stmt(<<"np">>, {"zero_ket"}, <<>>),
       Stmt(<<"np", "zero_ket">>, {}, <<Norm(zero_ket_literal)>>),
       Stmt(<<>>, {}, <<"The norm of the state after applying X">>),
       Stmt(<<"np", "X", "zero_ket">>, {}, <<Norm(Dot(X_literal, zero_ket_literal))>>) >>

\* the statements of source lines 225-238
SimulationBody ==
    << Stmt(<<>>, {"QuantumCircuit", "ClassicalRegister", "QuantumRegister"}, <<>>),
       Stmt(<<>>, {"execute"}, <<>>),
       Stmt(<<>>, {"BasicAer"}, <<>>),
       Stmt(<<>>, {"circuit_drawer"}, <<>>),
       SetPrintOptions,
       Stmt(<<"BasicAer">>, {"backend_statevector"}, <<>>),
       Stmt(<<"QuantumRegister">>, {"q"}, <<>>),
       Stmt(<<"ClassicalRegister">>, {"c"}, <<>>),
       Stmt(<<"QuantumCircuit", "q", "c">>, {"circuit"}, <<>>),
       Stmt(<<"circuit", "q">>, {}, <<>>),
       Stmt(<<"circuit", "q">>, {}, <<>>),
       Stmt(<<"execute", "circuit", "backend_statevector">>, {"job"}, <<>>),
       Stmt(<<"job", "circuit">>, {},
            <<ApplyGate("x", ApplyGate("x", <<COne, CZero>>))>>) >>

\* the cell without its own "import numpy as np"
CellSimulationNoImport == SimulationBody

\* source lines 224-238
CellSimulation == <<Stmt(<<>>, {"np"}, <<>>)>> \o SimulationBody

\* print(mixed_state(ϕ, v)) for the float v = tenths/10: the call reads
\* mixed_state and ϕ, and the function's body reads np; the line printed is
\* named by its call (MixedSpec computes the matrix the call returns)
PrintMixed(tenths) ==
    Stmt(<<"mixed_state", "ϕ", "np">>, {},
         <<[call |-> "mixed_state", visibility_tenths |-> tenths]>>)

\* source lines 305-318
CellMixed ==
    << Stmt(<<>>, {"mixed_state"}, <<>>),
       Stmt(<<"np">>, {"ϕ"}, <<>>),
       Stmt(<<>>, {}, <<"Maximum visibility is a pure state:">>),
       PrintMixed(10),
       Stmt(<<>>, {}, <<"The state is still entangled with visibility 0.8:">>),
       PrintMixed(8),
       Stmt(<<>>, {}, <<"Entanglement is lost by 0.6:">>),
       PrintMixed(6),
       Stmt(<<>>, {}, <<"Barely any coherence remains by 0.2:">>),
       PrintMixed(2) >>

\* source lines 362-378; the output is the figure, given by its legend
CellThermal ==
    << Stmt(<<>>, {"plt"}, <<>>),
       Stmt(<<>>, {"temperatures"}, <<>>),
       Stmt(<<"np">>, {"energies"}, <<>>),
       Stmt(<<"plt">>, {"fig", "ax"}, <<>>),
       Stmt(<<"temperatures", "np", "energies", "ax">>, {"i", "T", "probabilities", "Z"}, <<>>),
       Stmt(<<"ax">>, {}, <<>>),
       Stmt(<<"ax", "probabilities">>, {}, <<>>),
       Stmt(<<"ax">>, {}, <<>>),
       Stmt(<<"ax">>, {}, <<>>),
       Stmt(<<"ax">>, {}, <<>>),
       Stmt(<<"ax">>, {}, <<>>),
       Stmt(<<"ax">>, {}, <<[k \in 1..Len(temperatures_literal) |-> Label(k - 1)]>>) >>

CellNames == {"unitarity", "norm", "simulation", "mixed", "thermal"}

Cells(c) ==
    CASE c = "unitarity"  -> CellUnitarity
      [] c = "norm"       -> CellNorm
      [] c = "simulation" -> CellSimulation
      [] c = "mixed"      -> CellMixed
      [] c = "thermal"    -> CellThermal

\* the statements from the j-th on, run in the kernel state st
RECURSIVE RunStatements(_, _, _)
RunStatements(stmts, j, st) ==
    IF j > Len(stmts) THEN st
    ELSE LET unbound == {k \in DOMAIN stmts[j].reads : stmts[j].reads[k] \notin st.ns}
             nst     == [ns      |-> st.ns \cup stmts[j].binds,
                         out     |-> st.out \o stmts[j].out,
                         options |-> IF stmts[j].options THEN CellPrintOptions
                                     ELSE st.options,
                         error   |-> "",
                         missing |-> ""]
         IN  IF unbound # {}
             THEN [st EXCEPT !.error = "NameError",
                             !.missing = stmts[j].reads[CHOOSE k \in unbound :
                                                           \A l \in unbound : k <= l]]
             ELSE IF Len(nst.out) >= 0 /\ nst.ns = nst.ns
             THEN RunStatements(stmts, j + 1, nst)
             ELSE nst

KernelIdle ==
    /\ user_ns = {}
    /\ printoptions = DefaultPrintOptions
    /\ cell_log = <<>>

-----------------------------------------------------------------------------
\* A retrying Raise: the failed call is issued again instead of ending the
\* cell.
RaiseAndRetry(op, arg) ==
    /\ pc' = pc
    /\ calls' = Append(calls, [op |-> op, arg |-> arg, raised |-> TRUE, ret |-> ""])
    /\ UNCHANGED <<available_backends, n, available_backend, fmt_args, stdout>>

\* range(0, len(available_backends)) stopping one short
RangeStopShort == Len(available_backends) - 1

\* the list indexed from its end
ListedReversed(k) == available_backends[Len(available_backends) - k]

\* one external call: the method, its argument, whether it raised, and the
\* value it returned
Call(op, arg, ret) == [op |-> op, arg |-> arg, raised |-> FALSE, ret |-> ret]
Raised(op, arg) == [op |-> op, arg |-> arg, raised |-> TRUE, ret |-> ""]

Init ==
    /\ pc = "load_account"
    /\ available_backends = <<>>
    /\ n = 0
    /\ available_backend = "none"
    /\ fmt_args = <<>>
    /\ stdout = <<>>
    /\ calls = <<>>
    /\ svc_present = Names
    /\ svc_operational \in SUBSET Names
    /\ svc_pending = [b \in Names |-> Catalog[IdxOf(b)].pending_jobs]
    /\ svc_changes = 0
    /\ svc_history = {svc_pending}
    /\ UnitaryIdle
    /\ MixedIdle
    /\ ThermalIdle
    /\ KernelIdle

\* An exception caught inside the loop body: the backend is skipped and the
\* loop goes on with the next one.
RaiseAndSkip(op, arg) ==
    /\ calls' = Append(calls, [op |-> op, arg |-> arg, raised |-> TRUE, ret |-> ""])
    /\ IF pc \in {"get_backend", "configuration", "status"}
          THEN /\ n' = n + 1
               /\ pc' = IF n + 1 < Len(available_backends) THEN "get_backend" ELSE "done"
          ELSE /\ n' = n
               /\ pc' = "failed"
    /\ UNCHANGED <<available_backends, available_backend, fmt_args, stdout>>

\* An exception raised by an external call: nothing in the cell catches it,
\* the cell ends there.
Raise(op, arg) ==
    /\ pc' = "failed"
    /\ calls' = Append(calls, Raised(op, arg))
    /\ UNCHANGED <<available_backends, n, available_backend, fmt_args, stdout>>

\* the stop value of range(0, len(available_backends))
RangeStop == Len(available_backends)

\* a count cached when the run started, not asked for again
PendingJobsAtStart(b) == Offered[IdxOf(b)].pending_jobs

\* status().pending_jobs of backend b: the service's count at this moment
PendingJobs(b) == svc_pending[b]

\* the loop variable ignored: always the first backend of the list
ListedFirst(k) == available_backends[1]

\* available_backends[k] for python's 0-based k
Listed(k) == available_backends[k + 1]

\* IBMQ.load_account()
LoadAccount ==
    /\ pc = "load_account"
    /\ \/ /\ pc' = "get_provider"
          /\ calls' = Append(calls, Call("load_account", "", "ok"))
          /\ UNCHANGED <<available_backends, n, available_backend, fmt_args, stdout>>
       \/ Raise("load_account", "")
    /\ UNCHANGED <<svars, nvars>>

\* provider = IBMQ.get_provider()
GetProvider ==
    /\ pc = "get_provider"
    /\ \/ /\ pc' = "backends"
          /\ calls' = Append(calls, Call("get_provider", "", "ok"))
          /\ UNCHANGED <<available_backends, n, available_backend, fmt_args, stdout>>
       \/ Raise("get_provider", "")
    /\ UNCHANGED <<svars, nvars>>

\* available_backends = provider.backends(operational=True)
\* The service answers with its operational backends in an order of its own.
Backends ==
    /\ pc = "backends"
    /\ \/ \E s \in Orderings(svc_operational) :
            /\ available_backends' = s
            /\ pc' = "header1"
            /\ calls' = Append(calls, Call("backends", "", s))
            /\ UNCHANGED <<n, available_backend, fmt_args, stdout>>
       \/ Raise("backends", "")
    /\ UNCHANGED <<svars, nvars>>

\* print("{0:20} {1:<10} {2:<10} ".format("Name","#Qubits","Pending jobs"))
PrintHeader1 ==
    /\ pc = "header1"
    /\ stdout' = Append(stdout, Header1)
    /\ pc' = "header2"
    /\ UNCHANGED <<available_backends, n, available_backend, fmt_args, calls>>
    /\ UNCHANGED <<svars, nvars>>

\* print("{0:20} {1:<10} {2:<10} ".format("++++","+++++++","++++++++++++"))
\* and the first evaluation of range(0, len(available_backends))
PrintHeader2 ==
    /\ pc = "header2"
    /\ stdout' = Append(stdout, Header2)
    /\ n' = 0
    /\ pc' = IF 0 < RangeStop THEN "get_backend" ELSE "done"
    /\ UNCHANGED <<available_backends, available_backend, fmt_args, calls>>
    /\ UNCHANGED <<svars, nvars>>

\* available_backend = provider.get_backend(str(available_backends[n]))
GetBackend ==
    /\ pc = "get_backend"
    /\ LET nm == Listed(n) IN
       \/ /\ nm \in svc_present
          /\ available_backend' = nm
          /\ fmt_args' = <<>>
          /\ pc' = "name"
          /\ calls' = Append(calls, Call("get_backend", nm, nm))
          /\ UNCHANGED <<available_backends, n, stdout>>
       \/ Raise("get_backend", nm)
    /\ UNCHANGED <<svars, nvars>>

\* available_backend.name(): a local accessor, the first argument of .format
BackendName ==
    /\ pc = "name"
    /\ fmt_args' = Append(fmt_args, available_backend)
    /\ pc' = "configuration"
    /\ UNCHANGED <<available_backends, n, available_backend, stdout, calls>>
    /\ UNCHANGED <<svars, nvars>>

\* available_backend.configuration().n_qubits
Configuration ==
    /\ pc = "configuration"
    /\ \/ /\ fmt_args' = Append(fmt_args, Str(NQubits(available_backend)))
          /\ pc' = "status"
          /\ calls' = Append(calls, Call("configuration", available_backend,
                                         NQubits(available_backend)))
          /\ UNCHANGED <<available_backends, n, available_backend, stdout>>
       \/ Raise("configuration", available_backend)
    /\ UNCHANGED <<svars, nvars>>

\* available_backend.status().pending_jobs: what the service reports now
Status ==
    /\ pc = "status"
    /\ \/ /\ fmt_args' = Append(fmt_args, Str(PendingJobs(available_backend)))
          /\ pc' = "print_row"
          /\ calls' = Append(calls, Call("status", available_backend,
                                         PendingJobs(available_backend)))
          /\ UNCHANGED <<available_backends, n, available_backend, stdout>>
       \/ Raise("status", available_backend)
    /\ UNCHANGED <<svars, nvars>>

\* print("{0:20} {1:<10} {2:<10}".format(...)), then the next value of n
PrintRow ==
    /\ pc = "print_row"
    /\ stdout' = Append(stdout, FormatRow(fmt_args[1], fmt_args[2], fmt_args[3]))
    /\ n' = n + 1
    /\ pc' = IF n + 1 < RangeStop THEN "get_backend" ELSE "done"
    /\ UNCHANGED <<available_backends, available_backend, fmt_args, calls>>
    /\ UNCHANGED <<svars, nvars>>

\* The statements of the cell.
Cell ==
    \/ LoadAccount
    \/ GetProvider
    \/ Backends
    \/ PrintHeader1
    \/ PrintHeader2
    \/ GetBackend
    \/ BackendName
    \/ Configuration
    \/ Status
    \/ PrintRow

-----------------------------------------------------------------------------
\* The service changes on its own while the cell runs.

\* a job is submitted to, or leaves, the queue of backend b
JobsChange ==
    /\ svc_changes < MaxChanges
    /\ \E b \in svc_present : \E d \in {-1, 1} :
          /\ svc_pending[b] + d >= 0
          /\ svc_pending' = [svc_pending EXCEPT ![b] = @ + d]
    /\ svc_changes' = svc_changes + 1
    /\ svc_history' = svc_history \cup {svc_pending'}
    /\ UNCHANGED <<svc_present, svc_operational>>
    /\ UNCHANGED <<rvars, nvars>>

\* backend b stops being operational, but is still known to the provider
GoesDown ==
    /\ svc_changes < MaxChanges
    /\ \E b \in svc_operational : svc_operational' = svc_operational \ {b}
    /\ svc_changes' = svc_changes + 1
    /\ UNCHANGED <<svc_present, svc_pending, svc_history>>
    /\ UNCHANGED <<rvars, nvars>>

\* backend b is retired: the provider no longer resolves its name
Retired ==
    /\ svc_changes < MaxChanges
    /\ \E b \in svc_present :
          /\ svc_present' = svc_present \ {b}
          /\ svc_operational' = svc_operational \ {b}
    /\ svc_changes' = svc_changes + 1
    /\ UNCHANGED <<svc_pending, svc_history>>
    /\ UNCHANGED <<rvars, nvars>>

Service == JobsChange \/ GoesDown \/ Retired

Next == Cell \/ Service

Spec == Init /\ [][Next]_vars

\* Every external call returns (with a value or an exception): the cell is
\* never blocked forever.
FairSpec == Spec /\ WF_vars(Cell)

\* The same cell against a service that offers any of its backends, the
\* long-named one included: up to MaxBackends of them, all operational.
TableInit ==
    /\ pc = "load_account"
    /\ available_backends = <<>>
    /\ n = 0
    /\ available_backend = "none"
    /\ fmt_args = <<>>
    /\ stdout = <<>>
    /\ calls = <<>>
    /\ svc_present \in {S \in SUBSET {Offered[i].name : i \in DOMAIN Offered} :
                           Cardinality(S) \in 1..MaxBackends}
    /\ svc_operational = svc_present
    /\ svc_pending = [b \in svc_present |-> Offered[IdxOf(b)].pending_jobs]
    /\ svc_changes = 0
    /\ svc_history = {svc_pending}
    /\ UnitaryIdle
    /\ MixedIdle
    /\ ThermalIdle
    /\ KernelIdle

TableSpec == TableInit /\ [][Next]_vars

-----------------------------------------------------------------------------
\* The cells of the unitary-evolution notebook, run top to bottom.

ReporterIdle ==
    /\ pc = "idle"
    /\ available_backends = <<>>
    /\ n = 0
    /\ available_backend = "none"
    /\ fmt_args = <<>>
    /\ stdout = <<>>
    /\ calls = <<>>
    /\ svc_present = {}
    /\ svc_operational = {}
    /\ svc_pending = <<>>
    /\ svc_changes = 0
    /\ svc_history = {}

UnitaryInit ==
    /\ ReporterIdle
    /\ MixedIdle
    /\ ThermalIdle
    /\ KernelIdle
    /\ upc = "unitarity"
    /\ X \in IntArrays(2, 2)
    /\ zero_ket \in IntArrays(2, 1)
    /\ out_unitarity = <<>>
    /\ out_norm = <<>>
    /\ circuit = <<>>
    /\ statevector = <<>>
    /\ applied = 0
    /\ out_statevector = <<>>

\* print(X.dot(X.T.conj())); print(X.T.conj().dot(X))
UnitarityCheck ==
    /\ upc = "unitarity"
    /\ out_unitarity' = <<Dot(X, Conj(T(X))), Dot(Conj(T(X)), X)>>
    /\ upc' = "norm"
    /\ UNCHANGED <<X, zero_ket, out_norm, circuit, statevector, applied, out_statevector>>
    /\ UNCHANGED NotUnitary

\* print(np.linalg.norm(zero_ket)); print(np.linalg.norm(X.dot(zero_ket)))
NormCheck ==
    /\ upc = "norm"
    /\ out_norm' = <<Norm(zero_ket), Norm(Dot(X, zero_ket))>>
    /\ upc' = "circuit"
    /\ UNCHANGED <<X, zero_ket, out_unitarity, circuit, statevector, applied, out_statevector>>
    /\ UNCHANGED NotUnitary

\* circuit.x(q[0])
CircuitX ==
    /\ upc = "circuit"
    /\ Len(circuit) < MaxGates
    /\ circuit' = Append(circuit, "x")
    /\ UNCHANGED <<upc, X, zero_ket, out_unitarity, out_norm, statevector, applied,
                   out_statevector>>
    /\ UNCHANGED NotUnitary

\* job = execute(circuit, backend_statevector): the simulator starts from
\* the basis state |0>
Execute ==
    /\ upc = "circuit"
    /\ statevector' = <<COne, CZero>>
    /\ applied' = 0
    /\ upc' = "simulate"
    /\ UNCHANGED <<X, zero_ket, out_unitarity, out_norm, circuit, out_statevector>>
    /\ UNCHANGED NotUnitary

\* the simulator applies the next gate of the circuit
SimulateGate ==
    /\ upc = "simulate"
    /\ applied < Len(circuit)
    /\ statevector' = ApplyGate(circuit[applied + 1], statevector)
    /\ applied' = applied + 1
    /\ UNCHANGED <<upc, X, zero_ket, out_unitarity, out_norm, circuit, out_statevector>>
    /\ UNCHANGED NotUnitary

\* print(job.result().get_statevector(circuit))
PrintStatevector ==
    /\ upc = "simulate"
    /\ applied = Len(circuit)
    /\ out_statevector' = statevector
    /\ upc' = "done"
    /\ UNCHANGED <<X, zero_ket, out_unitarity, out_norm, circuit, statevector, applied>>
    /\ UNCHANGED NotUnitary

UnitaryNext ==
    \/ UnitarityCheck
    \/ NormCheck
    \/ CircuitX
    \/ Execute
    \/ SimulateGate
    \/ PrintStatevector

UnitarySpec == UnitaryInit /\ [][UnitaryNext]_vars

-----------------------------------------------------------------------------
\* One call of mixed_state.

MixedInit ==
    /\ ReporterIdle
    /\ UnitaryIdle
    /\ ThermalIdle
    /\ KernelIdle
    /\ mpc = "density_matrix"
    /\ pure_state \in PureStates
    /\ visibility \in Visibilities
    /\ density_matrix = <<>>
    /\ maximally_mixed_state = <<>>
    /\ out_mixed = <<>>

\* density_matrix = pure_state.dot(pure_state.T.conj())
MixedDensity ==
    /\ mpc = "density_matrix"
    /\ density_matrix' = DensityMatrix(pure_state)
    /\ mpc' = "maximally_mixed_state"
    /\ UNCHANGED <<pure_state, visibility, maximally_mixed_state, out_mixed>>
    /\ UNCHANGED NotMixed

\* maximally_mixed_state = np.eye(4)/2**2
MixedMaximally ==
    /\ mpc = "maximally_mixed_state"
    /\ maximally_mixed_state' = MaximallyMixedState
    /\ mpc' = "return"
    /\ UNCHANGED <<pure_state, visibility, density_matrix, out_mixed>>
    /\ UNCHANGED NotMixed

\* return visibility*density_matrix + (1-visibility)*maximally_mixed_state
MixedReturns ==
    /\ mpc = "return"
    /\ out_mixed' = MixedReturn(visibility, density_matrix, maximally_mixed_state)
    /\ mpc' = "returned"
    /\ UNCHANGED <<pure_state, visibility, density_matrix, maximally_mixed_state>>
    /\ UNCHANGED NotMixed

MixedNext == MixedDensity \/ MixedMaximally \/ MixedReturns

MixedSpec == MixedInit /\ [][MixedNext]_vars

-----------------------------------------------------------------------------
\* The thermal-distribution cell.

ThermalInit ==
    /\ ReporterIdle
    /\ UnitaryIdle
    /\ MixedIdle
    /\ KernelIdle
    /\ tpc = "linspace"
    /\ linspace_num \in GridSizes
    /\ exp_rounding \in Roundings
    /\ temperatures \in TemperatureLists
    /\ linspace_num = GridNum => temperatures = temperatures_literal
    /\ t_index = 0
    /\ Temp = FZero(0)
    /\ energies = <<>>
    /\ probabilities = <<>>
    /\ Z = FZero(0)
    /\ legend = <<>>

\* energies = np.linspace(0, 20, 100); fig, ax = plt.subplots()
ThermalLinspace ==
    /\ tpc = "linspace"
    /\ energies' = EnergiesTable[linspace_num]
    /\ tpc' = "for"
    /\ UNCHANGED <<linspace_num, exp_rounding, temperatures, t_index, Temp, probabilities, Z,
                   legend>>
    /\ UNCHANGED NotThermal

\* for i, T in enumerate(temperatures): the next temperature, or the end of
\* the loop and the statements after it (axes, legend)
ThermalFor ==
    /\ tpc = "for"
    /\ IF t_index < Len(temperatures)
         THEN /\ Temp' = temperatures[t_index + 1]
              /\ tpc' = "exp"
         ELSE /\ Temp' = Temp
              /\ tpc' = "done"
    /\ UNCHANGED <<linspace_num, exp_rounding, temperatures, t_index, energies, probabilities,
                   Z, legend>>
    /\ UNCHANGED NotThermal

\* probabilities = np.exp(-energies/T)
ThermalExp ==
    /\ tpc = "exp"
    /\ probabilities' = Weights(energies, Temp, exp_rounding)
    /\ tpc' = "sum"
    /\ UNCHANGED <<linspace_num, exp_rounding, temperatures, t_index, Temp, energies, Z, legend>>
    /\ UNCHANGED NotThermal

\* Z = probabilities.sum()
ThermalSum ==
    /\ tpc = "sum"
    /\ Z' = PairwiseSum(probabilities)
    /\ tpc' = "divide"
    /\ UNCHANGED <<linspace_num, exp_rounding, temperatures, t_index, Temp, energies, probabilities,
                   legend>>
    /\ UNCHANGED NotThermal

\* probabilities /= Z
ThermalNormalise ==
    /\ tpc = "divide"
    /\ probabilities' = Normalise(probabilities, Z)
    /\ tpc' = "plot"
    /\ UNCHANGED <<linspace_num, exp_rounding, temperatures, t_index, Temp, energies, Z, legend>>
    /\ UNCHANGED NotThermal

\* ax.plot(energies, probabilities, linewidth=3, label = "$T_" + str(i+1)+"$")
ThermalPlot ==
    /\ tpc = "plot"
    /\ legend' = Append(legend, Label(t_index))
    /\ t_index' = t_index + 1
    /\ tpc' = "for"
    /\ UNCHANGED <<linspace_num, exp_rounding, temperatures, Temp, energies, probabilities, Z>>
    /\ UNCHANGED NotThermal

ThermalNext ==
    \/ ThermalLinspace
    \/ ThermalFor
    \/ ThermalExp
    \/ ThermalSum
    \/ ThermalNormalise
    \/ ThermalPlot

ThermalSpec == ThermalInit /\ [][ThermalNext]_vars

-----------------------------------------------------------------------------
\* The cells of the unitary-evolution notebook, executed in any order in
\* one kernel.

KernelInit ==
    /\ ReporterIdle
    /\ UnitaryIdle
    /\ MixedIdle
    /\ ThermalIdle
    /\ user_ns = {}
    /\ printoptions = DefaultPrintOptions
    /\ cell_log = <<>>

\* the user executes cell c
RunCell(c) ==
    /\ Len(cell_log) < MaxExecutions
    /\ LET res == RunStatements(Cells(c), 1,
                      [ns |-> user_ns, out |-> <<>>, options |-> printoptions,
                       error |-> "", missing |-> ""])
       IN  /\ user_ns' = res.ns
           /\ printoptions' = res.options
           /\ cell_log' = Append(cell_log, [cell |-> c, out |-> res.out,
                                            error |-> res.error, missing |-> res.missing])
    /\ UNCHANGED NotKernel

RunUnitarity == RunCell("unitarity")
RunNorm == RunCell("norm")
RunSimulation == RunCell("simulation")
RunMixed == RunCell("mixed")
RunThermal == RunCell("thermal")

KernelNext ==
    \/ RunUnitarity
    \/ RunNorm
    \/ RunSimulation
    \/ RunMixed
    \/ RunThermal

KernelSpec == KernelInit /\ [][KernelNext]_vars

-----------------------------------------------------------------------------
\* Claims about the IBM Q Status cell.

\* the value the last status() query about backend nm returned
StatusOf(nm) ==
    LET I == {i \in DOMAIN calls :
                 calls[i].op = "status" /\ calls[i].arg = nm /\ ~calls[i].raised}
    IN  calls[CHOOSE i \in I : \A j \in I : j <= i].ret

\* the row of the i-th listed backend (i from 1)
ExpectedRow(i) ==
    FormatRow(available_backends[i],
              Str(NQubits(available_backends[i])),
              Str(StatusOf(available_backends[i])))

TableComplete ==
    /\ Len(stdout) = Len(available_backends) + 2
    /\ stdout[1] = Header1
    /\ stdout[2] = Header2
    /\ \A i \in 1..Len(available_backends) : stdout[i + 2] = ExpectedRow(i)

\* C1: when every external call returns, the run ends, and a run that ends
\* without an exception over a listing of N backends has printed exactly
\* N + 2 lines: the two header rows, then one row per listed backend with
\* its name, its qubit count and the pending-job count its status query
\* returned.
C1_RunPrintsTable ==
    /\ [](pc = "done" => TableComplete)
    /\ <>(pc \in {"done", "failed"})

C1_Witness ==
    /\ pc = "done"
    /\ Len(available_backends) >= 2
    /\ Len(stdout) = Len(available_backends) + 2
    /\ stdout[3] = "ibmqx2               5          81        "

\* the name column of a printed row
NameField(line) == SubSeq(line, 1, 20)

\* C2: the k-th row printed is the row of the k-th backend of the listing:
\* every print appends one line after those printed before, and the row
\* appended after k rows names available_backends[k + 1].
C2_RowsFollowListing ==
    /\ [](\A i \in 1..(Len(stdout) - 2) :
            /\ i <= Len(available_backends)
            /\ NameField(stdout[i + 2]) = LJust(available_backends[i], 20))
    /\ [][stdout' # stdout =>
            /\ Len(stdout') = Len(stdout) + 1
            /\ SubSeq(stdout', 1, Len(stdout)) = stdout
            /\ Len(stdout) >= 2 =>
                 NameField(stdout'[Len(stdout')]) =
                     LJust(available_backends[Len(stdout) - 1], 20)]_vars

\* a finished run over a listing that is sorted neither by name nor by
\* queue depth
C2_Witness ==
    /\ pc = "done"
    /\ Len(available_backends) >= 2
    /\ available_backends[1] = "ibmqx2"
    /\ available_backends[2] = "ibmq_qasm_simulator"
    /\ NameField(stdout[3]) = LJust("ibmqx2", 20)

\* C3: once an external call has failed the cell is over: no further
\* external call is issued (the failed one is not retried) and no further
\* line is printed.
C3_FailureIsFatal ==
    [][(calls # <<>> /\ calls[Len(calls)].raised) =>
           (calls' = calls /\ stdout' = stdout /\ pc' = "failed")]_vars

\* a status query failed after a row was printed, and the service moved on
C3_Witness ==
    /\ pc = "failed"
    /\ Len(stdout) >= 3
    /\ calls[Len(calls)].op = "status"
    /\ svc_changes > 0

-----------------------------------------------------------------------------
\* Claims about cells 1 to 3 of the unitary-evolution notebook.

Identity2 == << <<1, 0>>, <<0, 1>> >>
FOne == FFromInt(1)

\* C4: for X = [[0,1],[1,0]] both products the cell prints, X.X^dagger and
\* X^dagger.X, are the integer matrix [[1,0],[0,1]].
C4_XIsUnitary ==
    (X = X_literal /\ out_unitarity # <<>>) =>
        /\ out_unitarity[1] = Identity2
        /\ out_unitarity[2] = Identity2

C4_Witness ==
    /\ X = X_literal
    /\ upc = "norm"
    /\ out_unitarity = <<Identity2, Identity2>>

\* C5: the simulator starts from [1,0]; after one x gate the state is
\* [0,1], after two it is [1,0] again (after any even number [1,0], after
\* any odd number [0,1]), and that is what the cell prints for the circuit
\* of two x gates.
C5_TwoFlipsRestore ==
    /\ upc \in {"simulate", "done"} =>
          statevector = IF applied % 2 = 0 THEN <<COne, CZero>> ELSE <<CZero, COne>>
    /\ upc = "done" => (applied = Len(circuit) /\ out_statevector = statevector)

C5_Witness ==
    /\ upc = "done"
    /\ circuit = <<"x", "x">>
    /\ out_statevector = <<COne, CZero>>

\* C6: for X = [[0,1],[1,0]] the norm the cell prints after applying X is
\* the norm it prints before, and for zero_ket = [[1],[0]] both are
\* exactly 1.0.
C6_NormPreserved ==
    (X = X_literal /\ out_norm # <<>>) =>
        /\ FEq(out_norm[1], out_norm[2])
        /\ zero_ket = zero_ket_literal =>
              (FEq(out_norm[1], FOne) /\ FEq(out_norm[2], FOne))

C6_Witness ==
    /\ X = X_literal
    /\ zero_ket = zero_ket_literal
    /\ upc = "circuit"
    /\ out_norm = <<FOne, FOne>>

-----------------------------------------------------------------------------
\* Claims about mixed_state.

FHalf == FDiv(FFromInt(1), FFromInt(2))
FQuarter == FDiv(FFromInt(1), FFromInt(4))

\* 0.5 - 2^-53 = (2^53 - 2) * 2^-54, the float64 below 0.5 that python
\* prints as 0.4999999999999999
FHalfBelow == Float(0, BSub(BPow2(Precision), <<2>>), -(Precision + 1))

Corner(i, j) == i \in {1, 4} /\ j \in {1, 4}

\* the statement of C7 as the claim has it: the corner entries are 0.5
C7_Original ==
    (mpc = "returned" /\ pure_state = Phi /\ FEq(visibility, FOne)) =>
        \A i, j \in 1..4 :
            /\ FEq(out_mixed[i][j].re, IF Corner(i, j) THEN FHalf ELSE FZero(0))
            /\ FIsZero(out_mixed[i][j].im)

\* C7 (amended): mixed_state(ϕ, 1.0) is exactly the array
\* ϕ.dot(ϕ.T.conj()) the function computed, with nothing of the maximally
\* mixed state in it; its entries at (0,0), (0,3), (3,0), (3,3) are the
\* float64 square of the float64 1/sqrt(2), which is 0.5 - 2^-53 and not
\* 0.5, and its other entries are 0.
C7_PureAtFullVisibility ==
    (mpc = "returned" /\ pure_state = Phi /\ FEq(visibility, FOne)) =>
        /\ \A i, j \in 1..4 :
              /\ FEq(out_mixed[i][j].re, density_matrix[i][j].re)
              /\ FEq(out_mixed[i][j].im, density_matrix[i][j].im)
              /\ FEq(out_mixed[i][j].re, IF Corner(i, j) THEN FHalfBelow ELSE FZero(0))
              /\ FIsZero(out_mixed[i][j].im)
        /\ ~FEq(FHalfBelow, FHalf)
        /\ FWithin(FHalfBelow, FHalf, -Precision)

C7_Witness ==
    /\ mpc = "returned"
    /\ pure_state = Phi
    /\ FEq(visibility, FOne)
    /\ out_mixed[1][4].re = FHalfBelow

\* C8: with visibility 0.0 the result is I/4 exactly, whatever the pure
\* state: 0.25 on the diagonal, 0 elsewhere.
C8_MaximallyMixedAtZero ==
    (mpc = "returned" /\ FIsZero(visibility)) =>
        \A i, j \in 1..4 :
            /\ FEq(out_mixed[i][j].re, IF i = j THEN FQuarter ELSE FZero(0))
            /\ FIsZero(out_mixed[i][j].im)

\* a returned call with visibility 0.0 on a state with an imaginary
\* amplitude, other than ϕ
C8_Witness ==
    /\ mpc = "returned"
    /\ FIsZero(visibility)
    /\ pure_state # Phi
    /\ \E i \in 1..4 : ~FIsZero(pure_state[i].im)
    /\ \E i, j \in 1..4 : ~FIsZero(density_matrix[i][j].im)

\* np.trace: the diagonal summed from the first entry to the last
TraceRe(M) == FAdd(FAdd(FAdd(M[1][1].re, M[2][2].re), M[3][3].re), M[4][4].re)
TraceIm(M) == FAdd(FAdd(FAdd(M[1][1].im, M[2][2].im), M[3][3].im), M[4][4].im)

\* the statement of C9 as the claim has it: the trace is 1.0
C9_Original ==
    (mpc = "returned" /\ pure_state = Phi) => FEq(TraceRe(out_mixed), FOne)

\* C9 (amended): for every visibility in [0, 1] the trace of
\* mixed_state(ϕ, v) is 1.0 within floating-point tolerance: it is real and
\* differs from 1.0 by at most 2^-50.
C9_TraceNearOne ==
    (mpc = "returned" /\ pure_state = Phi) =>
        /\ FWithin(TraceRe(out_mixed), FOne, -50)
        /\ FIsZero(TraceIm(out_mixed))

\* mixed_state(ϕ, 0.8), whose trace is not 1.0
C9_Witness ==
    /\ mpc = "returned"
    /\ pure_state = Phi
    /\ visibility = FDiv(FFromInt(8), FFromInt(10))
    /\ ~FEq(TraceRe(out_mixed), FOne)
    /\ FWithin(TraceRe(out_mixed), FOne, -52)

\* C10: the matrix mixed_state returns is Hermitian: entry (i,j) is the
\* complex conjugate of entry (j,i).
C10_Hermitian ==
    mpc = "returned" =>
        \A i, j \in 1..4 :
            /\ FEq(out_mixed[i][j].re, out_mixed[j][i].re)
            /\ FEq(out_mixed[i][j].im, FNeg(out_mixed[j][i].im))

\* a returned matrix with an entry that is not real
C10_Witness ==
    /\ mpc = "returned"
    /\ \E i, j \in 1..4 : ~FIsZero(out_mixed[i][j].im)

-----------------------------------------------------------------------------
\* More claims about the IBM Q Status cell.

\* the text is in the line from column col on (columns count from 1)
FieldAt(line, col, text) ==
    /\ Len(line) >= col + Len(text) - 1
    /\ SubSeq(line, col, col + Len(text) - 1) = text

\* the three fields of a line start at the columns of the table
Aligned(line, a, b, c) ==
    /\ FieldAt(line, 1, a)
    /\ FieldAt(line, NameWidth + 2, b)
    /\ FieldAt(line, NameWidth + CountWidth + 3, c)

\* C13: the output is a fixed-width table: in the two header rows and in
\* every backend row the name starts at column 1, the qubit count right
\* after the 20-character name column and the pending-job count right after
\* the 10-character qubit column, whatever the backend's name and counts.
C13_FixedWidthTable ==
    /\ Len(stdout) >= 1 => Aligned(stdout[1], "Name", "#Qubits", "Pending jobs")
    /\ Len(stdout) >= 2 => Aligned(stdout[2], "++++", "+++++++", "++++++++++++")
    /\ \A i \in 1..(Len(stdout) - 2) :
          Aligned(stdout[i + 2], available_backends[i],
                  Str(NQubits(available_backends[i])),
                  Str(StatusOf(available_backends[i])))

\* some external call has raised
SomeRaised == \E i \in DOMAIN calls : calls[i].raised

\* the index in calls of the first call that raised
FirstRaised ==
    CHOOSE i \in DOMAIN calls :
        calls[i].raised /\ \A j \in DOMAIN calls : calls[j].raised => i <= j

\* the number of status queries answered before call f
AnsweredBefore(f) ==
    Cardinality({j \in 1..(f - 1) : calls[j].op = "status" /\ ~calls[j].raised})

\* C14: when load_account, get_provider or the listing is the first call to
\* fail, nothing is printed; when the first failing call belongs to the
\* iteration of the backend at index k, the output is the two header rows
\* and the rows of backends 0..k-1, and nothing is printed afterwards.
C14_PartialOutput ==
    /\ [](SomeRaised =>
            LET f == FirstRaised
                k == AnsweredBefore(f)
            IN  IF calls[f].op \in {"load_account", "get_provider", "backends"}
                  THEN stdout = <<>>
                  ELSE /\ k < Len(available_backends)
                       /\ calls[f].arg = available_backends[k + 1]
                       /\ Len(stdout) = k + 2
                       /\ stdout[1] = Header1
                       /\ stdout[2] = Header2
                       /\ \A i \in 1..k : stdout[i + 2] = ExpectedRow(i))
    /\ [][SomeRaised => stdout' = stdout]_vars

\* the configuration query of the second backend failed after the first
\* backend's row was printed
C14_Witness ==
    /\ pc = "failed"
    /\ Len(available_backends) >= 2
    /\ calls[Len(calls)].op = "configuration"
    /\ calls[Len(calls)].arg = available_backends[2]
    /\ Len(stdout) = 3

\* C15: the listing is fetched once and never changes afterwards; the count
\* a status query returns, and the row shows, is the service's count at the
\* moment of that query; a listed backend that the provider no longer
\* resolves makes get_backend fail, the loop does not skip it.  So the table
\* can show counts that the service never had at the same time.
C15_NoAtomicSnapshot ==
    /\ [][pc \notin {"load_account", "get_provider", "backends"} =>
            available_backends' = available_backends]_vars
    /\ [][(calls' # calls /\ calls'[Len(calls')].op = "status"
                          /\ ~calls'[Len(calls')].raised) =>
            /\ calls'[Len(calls')].ret = svc_pending[available_backend]
            /\ fmt_args'[Len(fmt_args')] = Str(svc_pending[available_backend])]_vars
    /\ [](\A i \in 1..(Len(stdout) - 2) : stdout[i + 2] = ExpectedRow(i))
    /\ [][(pc = "get_backend" /\ available_backends[n + 1] \notin svc_present) =>
            (rvars' = rvars \/ (pc' = "failed" /\ stdout' = stdout))]_vars

\* a finished table of two rows whose pair of counts the service never had
\* at one time
C15_Witness ==
    /\ pc = "done"
    /\ Len(available_backends) = 2
    /\ Len(stdout) = 4
    /\ \A h \in svc_history :
          \E i \in 1..2 : h[available_backends[i]] # StatusOf(available_backends[i])

\* the call expected at position j of the run (j from 1)
ExpectedCall(j) ==
    IF j <= 3
      THEN [op |-> <<"load_account", "get_provider", "backends">>[j], arg |-> ""]
      ELSE [op |-> <<"get_backend", "configuration", "status">>[((j - 4) % 3) + 1],
            arg |-> available_backends[((j - 4) \div 3) + 1]]

\* C16: the external calls are load_account, get_provider, one listing, and
\* then for each listed backend in increasing index its get_backend, its
\* configuration query (after name() was evaluated) and its status query;
\* calls are only ever appended, a query about the backend at index k is
\* issued when exactly the rows of backends 0..k-1 are printed, and a row is
\* printed when the three queries of its backend have been answered.
C16_CallOrdering ==
    /\ [](\A j \in DOMAIN calls :
            /\ j >= 4 => ((j - 4) \div 3) + 1 <= Len(available_backends)
            /\ calls[j].op = ExpectedCall(j).op
            /\ calls[j].arg = ExpectedCall(j).arg)
    /\ [][calls' # calls =>
            /\ Len(calls') = Len(calls) + 1
            /\ SubSeq(calls', 1, Len(calls)) = calls
            /\ Len(calls') >= 4 => Len(stdout) = ((Len(calls') - 4) \div 3) + 2
            /\ calls'[Len(calls')].op = "configuration" =>
                  fmt_args = <<calls'[Len(calls')].arg>>]_vars
    /\ [][(stdout' # stdout /\ Len(stdout) >= 2) =>
            /\ Len(calls) = 3 + 3 * (Len(stdout) - 1)
            /\ ~calls[Len(calls)].raised]_vars

\* a finished run over two backends: nine calls, four lines
C16_Witness ==
    /\ pc = "done"
    /\ Len(available_backends) = 2
    /\ Len(calls) = 9
    /\ calls[7].op = "get_backend"
    /\ calls[7].arg = available_backends[2]
    /\ Len(stdout) = 4

-----------------------------------------------------------------------------
\* Claims about the thermal-distribution cell.

\* the unit 2^SumUnit in which the real sum is bounded: three significand
\* widths below 1
SumUnit == -(3 * Precision)

\* the entries ps[from..to], all >= 0, each cut down to a multiple of
\* 2^SumUnit, added exactly, in units of 2^SumUnit (the range is halved, so
\* the nesting stays shallow for a long array)
RECURSIVE ExactSum(_, _, _)
ExactSum(ps, from, to) ==
    IF from > to THEN <<>>
    ELSE IF from = to
    THEN IF FIsZero(ps[from]) THEN <<>>
         ELSE IF ps[from].exp >= SumUnit THEN BShl(ps[from].man, ps[from].exp - SumUnit)
         ELSE BShr(ps[from].man, SumUnit - ps[from].exp)
    ELSE BAdd(ExactSum(ps, from, (from + to) \div 2),
              ExactSum(ps, (from + to) \div 2 + 1, to))

\* the real sum of the entries of ps differs from 1 by at most 2^e: each
\* entry exceeds its cut value by less than one unit, so the real sum lies
\* between total and total + Len(ps) units
SumNearOne(ps, e) ==
    LET total == ExactSum(ps, 1, Len(ps))
        one   == BPow2(-SumUnit)
        d     == IF BCmp(total, one) >= 0 THEN BSub(total, one) ELSE BSub(one, total)
    IN  BCmp(BAdd(d, BFromInt(Len(ps))), BPow2(e - SumUnit)) <= 0

\* C11 as stated: after probabilities /= Z, at any temperature T > 0, the
\* probabilities sum to 1.0 within floating-point tolerance (2^-40), and
\* every probability is greater than 0 and at most 1.
C11_Original ==
    tpc = "plot" =>
        /\ SumNearOne(probabilities, -40)
        /\ \A j \in DOMAIN probabilities :
              /\ FLess(FZero(0), probabilities[j])
              /\ ~FLess(FOne, probabilities[j])

\* C11: after probabilities /= Z, at any temperature T > 0, the
\* probabilities sum to 1.0 within floating-point tolerance (their real sum
\* and their numpy sum are within 2^-40 of 1), and every probability is at
\* least 0 and at most 1; at the source's temperatures 0.5, 5 and 2000
\* every probability is greater than 0.
C11_ProbabilitiesSumToOne ==
    tpc = "plot" =>
        /\ SumNearOne(probabilities, -40)
        /\ FWithin(PairwiseSum(probabilities), FOne, -40)
        /\ \A j \in DOMAIN probabilities :
              /\ ~FLess(probabilities[j], FZero(0))
              /\ ~FLess(FOne, probabilities[j])
        /\ temperatures = temperatures_literal =>
              \A j \in DOMAIN probabilities : FLess(FZero(0), probabilities[j])

\* the source's grid of 100 energies normalised at the source's T = 5
C11_Witness ==
    /\ tpc = "plot"
    /\ linspace_num = GridNum
    /\ Len(probabilities) = GridNum
    /\ Temp = FFromInt(5)
    /\ FLess(probabilities[GridNum], probabilities[1])
    /\ FLess(FOne, Z)

-----------------------------------------------------------------------------
\* Claims about the kernel of the unitary-evolution notebook.

\* everything the statements of cell c print
RECURSIVE OutputFrom(_, _)
OutputFrom(stmts, j) ==
    IF j > Len(stmts) THEN <<>> ELSE stmts[j].out \o OutputFrom(stmts, j + 1)

FullOutput(c) == OutputFrom(Cells(c), 1)

\* C12 as stated: every cell produces its output whatever cells were
\* executed before it: no execution ends with an error, and each prints
\* all of its output.
C12_Original ==
    \A k \in DOMAIN cell_log :
        /\ cell_log[k].error = ""
        /\ cell_log[k].out = FullOutput(cell_log[k].cell)

\* the names a cell reads without binding them itself
Needs(c) ==
    CASE c = "unitarity"  -> {}
      [] c = "norm"       -> {"np", "X"}
      [] c = "simulation" -> {}
      [] c = "mixed"      -> {"np"}
      [] c = "thermal"    -> {"np"}

\* C12: the cells share the kernel's namespace.  The unitarity cell and the
\* simulation cell bind every name they read and produce their output
\* whatever was executed before; the norm cell reads np and X, the
\* mixed-state cell and the thermal cell read np, which only the unitarity
\* cell (np, X) and the simulation cell (np) bind.  A cell executed when
\* these names are bound produces its output; executed before, it ends with
\* NameError on one of them, having printed less than its output.
C12_CellsShareNamespace ==
    /\ [][cell_log' # cell_log =>
            LET e == cell_log'[Len(cell_log')]
            IN  IF Needs(e.cell) \subseteq user_ns
                  THEN /\ e.error = ""
                       /\ e.out = FullOutput(e.cell)
                  ELSE /\ e.error = "NameError"
                       /\ e.missing \in Needs(e.cell) \ user_ns
                       /\ Len(e.out) < Len(FullOutput(e.cell))]_vars
    /\ []( /\ "np" \in user_ns <=>
                \E k \in DOMAIN cell_log : cell_log[k].cell \in {"unitarity", "simulation"}
           /\ "X" \in user_ns <=>
                \E k \in DOMAIN cell_log : cell_log[k].cell = "unitarity" )

\* the norm cell executed in a fresh kernel ends with NameError after its
\* first line; executed again after the unitarity cell it prints both norms
C12_Witness ==
    /\ Len(cell_log) = 3
    /\ cell_log[1].cell = "norm"
    /\ cell_log[1].error = "NameError"
    /\ cell_log[1].missing = "np"
    /\ cell_log[1].out = <<"The norm of the state |0> before applying X">>
    /\ cell_log[2].cell = "unitarity"
    /\ cell_log[2].error = ""
    /\ cell_log[3].cell = "norm"
    /\ cell_log[3].error = ""
    /\ Len(cell_log[3].out) = 4
    /\ cell_log[3].out[4] = FOne

====
